---- MODULE Spec2Model ----
(***************************************************************************)
(* octl: a command-line client for Outlook mail and calendar.              *)
(*                                                                         *)
(* Every invocation of the binary is one process that runs one command to  *)
(* completion; what survives between invocations is the configuration      *)
(* directory ~/.config/octl with its two files, config.json and            *)
(* auth_record.json.  The model keeps that directory as its persistent     *)
(* state and, next to it, a description of the most recent run: the        *)
(* command, its inputs, the error it returned, what it printed, the remote *)
(* calls it issued and the Manager it built.                               *)
(*                                                                         *)
(* Text is a sequence of characters over a small alphabet that contains    *)
(* one byte that is not valid UTF-8; the replacement rune U+FFFD that      *)
(* encoding/json puts in its place is a third character.                   *)
(*                                                                         *)
(* A path of the directory is in one of five conditions:                   *)
(*   absent   nothing there                                                *)
(*   noperm   a file of mode 000: reads and writes fail with EACCES, the   *)
(*            entry can be unlinked                                        *)
(*   isdir    a non-empty directory: reads and writes fail with EISDIR,    *)
(*            os.Remove fails with ENOTEMPTY                               *)
(*   garbage  a readable file whose bytes json.Unmarshal rejects           *)
(*   json     a readable file holding a document json.Unmarshal accepts    *)
(* os.WriteFile either replaces the content or fails and leaves the path   *)
(* as it was.                                                              *)
(***************************************************************************)
EXTENDS Integers, Sequences, FiniteSets, TLC

\* ---------------------------------------------------------------- bounds
MaxIDLen == 1
\* headers of a table under test; one row has one cell more
MaxCols == 2
\* rows of a table under test
MaxRows == 2
\* bytes of a sender or subject
MaxTextLen == 5
\* largest maxLen passed to FormatFrom and FormatSubject
MaxLenArg == 13
\* pieces an HTML body is put together from
MaxPieces == 3

\* ------------------------------------------------------------- constants
MailTimeoutSec == 30
LoginTimeoutSec == 300

\* ------------------------------------------------------------------ text
BadByte == "x80"
ReplacementRune == "uFFFD"
\* what a user can type: a letter, or a byte that is no UTF-8
Chars == {"a", BadByte}

RECURSIVE SeqsUpTo(_, _)
SeqsUpTo(S, n) ==
    IF n = 0 THEN {<<>>}
    ELSE LET shorter == SeqsUpTo(S, n - 1)
         IN  shorter \cup {Append(s, c) : s \in {t \in shorter : Len(t) = n - 1}, c \in S}

Strings == SeqsUpTo(Chars, MaxIDLen)

EmptyString == <<>>

\* encoding/json coerces a string to valid UTF-8 when it encodes it and when
\* it decodes it: every invalid byte becomes U+FFFD.
ToValidUTF8(s) == [i \in 1..Len(s) |-> IF s[i] = BadByte THEN ReplacementRune ELSE s[i]]

\* utf8.ValidString
ValidUTF8(s) == \A i \in 1..Len(s) : s[i] # BadByte

\* ----------------------------------------------------------- file system
Absent == [kind |-> "absent", hasKey |-> FALSE, value |-> EmptyString]
NoPerm == [kind |-> "noperm", hasKey |-> FALSE, value |-> EmptyString]
IsDir == [kind |-> "isdir", hasKey |-> FALSE, value |-> EmptyString]
Garbage == [kind |-> "garbage", hasKey |-> FALSE, value |-> EmptyString]
\* a JSON document: for config.json the key is client_id, for
\* auth_record.json it is clientId
JSONDoc(hasKey, value) == [kind |-> "json", hasKey |-> hasKey, value |-> value]

\* the strings a document can hold: typed ones and coerced ones
FileValues == Strings \cup {ToValidUTF8(v) : v \in Strings}

FileStates ==
    {Absent, NoPerm, IsDir, Garbage, JSONDoc(FALSE, EmptyString)}
        \cup {JSONDoc(TRUE, v) : v \in FileValues}

\* os.ReadFile
ReadFile(f) ==
    CASE f.kind = "absent" -> [err |-> "ENOENT", data |-> f]
      [] f.kind \in {"noperm", "isdir"} -> [err |-> "EIO", data |-> f]
      [] OTHER -> [err |-> "nil", data |-> f]

\* os.WriteFile: the error and the path's new condition
WriteFile(f, data) ==
    IF f.kind \in {"noperm", "isdir"}
    THEN [err |-> "EIO", file |-> f]
    ELSE [err |-> "nil", file |-> data]

\* os.Remove
Remove(f) ==
    CASE f.kind = "absent" -> [err |-> "ENOENT", file |-> f]
      [] f.kind = "isdir" -> [err |-> "ENOTEMPTY", file |-> f]
      [] OTHER -> [err |-> "nil", file |-> Absent]

\* os.IsNotExist
IsNotExist(err) == err = "ENOENT"

\* ---------------------------------------------------------------- config
Config(clientID) == [ClientID |-> clientID]

\* json.MarshalIndent of a Config: client_id is tagged omitempty
MarshalConfig(cfg) ==
    IF cfg.ClientID = EmptyString
    THEN JSONDoc(FALSE, EmptyString)
    ELSE JSONDoc(TRUE, ToValidUTF8(cfg.ClientID))

\* json.Unmarshal into a Config
UnmarshalConfig(data) ==
    IF data.kind # "json"
    THEN [err |-> "parse", cfg |-> Config(EmptyString)]
    ELSE [err |-> "nil",
          cfg |-> Config(IF data.hasKey THEN ToValidUTF8(data.value) ELSE EmptyString)]

\* Load as it would be if a missing file were reported like any read error
Load_errOnMissing(f) ==
    LET r == ReadFile(f)
    IN  IF r.err # "nil"
        THEN [err |-> "failed to read config", cfg |-> Config(EmptyString)]
        ELSE LET u == UnmarshalConfig(r.data)
             IN  IF u.err # "nil"
                 THEN [err |-> "failed to parse config", cfg |-> Config(EmptyString)]
                 ELSE [err |-> "nil", cfg |-> u.cfg]

\* the result of config.Load on the config file f
Load(f) ==
    LET r == ReadFile(f)
    IN  IF r.err # "nil"
        THEN IF IsNotExist(r.err)
             THEN [err |-> "nil", cfg |-> Config(EmptyString)]
             ELSE [err |-> "failed to read config", cfg |-> Config(EmptyString)]
        ELSE LET u == UnmarshalConfig(r.data)
             IN  IF u.err # "nil"
                 THEN [err |-> "failed to parse config", cfg |-> Config(EmptyString)]
                 ELSE [err |-> "nil", cfg |-> u.cfg]

\* Save as it would be if it created the file only when there is none
Save_keepExisting(d, f, cfg) ==
    IF f.kind \in {"garbage", "json"}
    THEN [err |-> "nil", dir |-> TRUE, file |-> f]
    ELSE LET w == WriteFile(f, MarshalConfig(cfg))
         IN  IF w.err # "nil"
             THEN [err |-> "failed to write config", dir |-> TRUE, file |-> w.file]
             ELSE [err |-> "nil", dir |-> TRUE, file |-> w.file]

\* the result of config.Save(cfg) with the config file in condition f:
\* MkdirAll creates the directory, WriteFile replaces the file
Save(d, f, cfg) ==
    LET w == WriteFile(f, MarshalConfig(cfg))
    IN  IF w.err # "nil"
        THEN [err |-> "failed to write config", dir |-> TRUE, file |-> w.file]
        ELSE [err |-> "nil", dir |-> TRUE, file |-> w.file]

\* GetClientID as it would be if the config file took precedence
GetClientID_configFirst(env, f) ==
    LET l == Load(f)
    IN  IF l.err = "nil" /\ l.cfg.ClientID # EmptyString
        THEN l.cfg.ClientID
        ELSE env

\* config.GetClientID with OCTL_CLIENT_ID = env
GetClientID(env, f) ==
    IF env # EmptyString
    THEN env
    ELSE LET l == Load(f)
         IN  IF l.err # "nil" THEN EmptyString ELSE l.cfg.ClientID

\* SetClientID as it would be if it saved the loaded config unchanged
SetClientID_keepOld(d, f, clientID) ==
    LET l == Load(f)
        cfg == IF l.err # "nil" THEN Config(EmptyString) ELSE l.cfg
    IN  Save(d, f, cfg)

\* SetClientID as it would be if a config that fails to load were an error
SetClientID_failOnLoad(d, f, clientID) ==
    LET l == Load(f)
    IN  IF l.err # "nil"
        THEN [err |-> l.err, dir |-> d, file |-> f]
        ELSE Save(d, f, [l.cfg EXCEPT !.ClientID = clientID])

\* config.SetClientID(clientID)
SetClientID(d, f, clientID) ==
    LET l == Load(f)
        cfg == IF l.err # "nil" THEN Config(EmptyString) ELSE l.cfg
    IN  Save(d, f, [cfg EXCEPT !.ClientID = clientID])

\* --------------------------------------------------------------- context
\* context.Background()
Background == [hasDeadline |-> FALSE, timeout |-> 0]
\* context.WithTimeout(context.Background(), d)
WithTimeout(d) == [hasDeadline |-> TRUE, timeout |-> d]

\* a remote call: the operation and the context it was issued under
RemoteCall(op, ctx) == [op |-> op, ctx |-> ctx]

\* ------------------------------------------------------------------ auth
NoRecord == [present |-> FALSE, ClientID |-> EmptyString]
AuthenticationRecord(clientID) == [present |-> TRUE, ClientID |-> clientID]

NoCredential ==
    [present |-> FALSE, ClientID |-> EmptyString, record |-> NoRecord,
     DisableAutomaticAuthentication |-> FALSE]
\* azidentity.NewDeviceCodeCredential(options)
NewDeviceCodeCredential(clientID, record, disableAuto) ==
    [present |-> TRUE, ClientID |-> clientID, record |-> record,
     DisableAutomaticAuthentication |-> disableAuto]

\* auth.NewManager(clientID)
NewManager(clientID) ==
    [clientID |-> clientID, credential |-> NoCredential, record |-> NoRecord]

\* json.MarshalIndent of an AuthenticationRecord
MarshalRecord(record) == JSONDoc(TRUE, ToValidUTF8(record.ClientID))

\* json.Unmarshal into an AuthenticationRecord; a document without the
\* record's fields has no supported version and is rejected
UnmarshalRecord(data) ==
    IF data.kind = "json" /\ data.hasKey
    THEN [err |-> "nil", record |-> AuthenticationRecord(ToValidUTF8(data.value))]
    ELSE [err |-> "parse", record |-> NoRecord]

\* saveAuthRecord as it would be if the record were never written
saveAuthRecord_noWrite(m, d, f) ==
    IF ~m.record.present
    THEN [err |-> "no auth record to save", dir |-> d, file |-> f]
    ELSE [err |-> "nil", dir |-> TRUE, file |-> f]

\* Manager.saveAuthRecord with auth_record.json in condition f
saveAuthRecord(m, d, f) ==
    IF ~m.record.present
    THEN [err |-> "no auth record to save", dir |-> d, file |-> f]
    ELSE LET w == WriteFile(f, MarshalRecord(m.record))
         IN  IF w.err # "nil"
             THEN [err |-> "failed to write auth record", dir |-> TRUE, file |-> w.file]
             ELSE [err |-> "nil", dir |-> TRUE, file |-> w.file]

\* Manager.loadAuthRecord
loadAuthRecord(f) ==
    LET r == ReadFile(f)
    IN  IF r.err # "nil"
        THEN IF IsNotExist(r.err)
             THEN [err |-> "not logged in", record |-> NoRecord]
             ELSE [err |-> "failed to read auth record", record |-> NoRecord]
        ELSE LET u == UnmarshalRecord(r.data)
             IN  IF u.err # "nil"
                 THEN [err |-> "failed to parse auth record", record |-> NoRecord]
                 ELSE [err |-> "nil", record |-> u.record]

\* Manager.LoadCredential: the error and the Manager afterwards
LoadCredential(m, f) ==
    LET l == loadAuthRecord(f)
    IN  IF l.err # "nil"
        THEN [err |-> l.err, mgr |-> m]
        ELSE [err |-> "nil",
              mgr |-> [m EXCEPT !.credential =
                                    NewDeviceCodeCredential(m.clientID, l.record, TRUE),
                                !.record = l.record]]

\* What the identity service and the user do with a device-code login:
\*   ok           the user completes the flow in the browser
\*   denied       the prompt is shown, the flow is not completed in time
\*   unreachable  the device code cannot be requested, nothing is shown
AuthOutcomes == {"ok", "denied", "unreachable"}

\* DeviceCodeCredential.Authenticate(ctx, scopes); the identity service
\* completes a login only for a registered application ID, which is text
Authenticate(cred, ctx, outcome) ==
    LET ok == outcome = "ok" /\ ValidUTF8(cred.ClientID)
    IN  [err |-> IF ok THEN "nil" ELSE "authentication failed",
         record |-> IF ok THEN AuthenticationRecord(cred.ClientID) ELSE NoRecord,
         prompted |-> outcome # "unreachable",
         calls |-> <<RemoteCall("devicecode", ctx)>>]

\* Manager.Login(ctx)
Login(m, ctx, outcome, d, f) ==
    LET cred == NewDeviceCodeCredential(m.clientID, NoRecord, FALSE)
        a == Authenticate(cred, ctx, outcome)
        m1 == [m EXCEPT !.credential = cred]
        m2 == [m1 EXCEPT !.record = a.record]
        s == saveAuthRecord(m2, d, f)
    IN  IF a.err # "nil"
        THEN [err |-> a.err, mgr |-> m1, dir |-> d, file |-> f,
              prompted |-> a.prompted, calls |-> a.calls]
        ELSE [err |-> IF s.err # "nil" THEN "failed to save auth record" ELSE "nil",
              mgr |-> m2, dir |-> s.dir, file |-> s.file,
              prompted |-> a.prompted, calls |-> a.calls]

\* What the identity library finds when asked for a token:
\*   cache_hit     a valid access token, no request is made
\*   refresh_ok    a refresh token, exchanged at the token endpoint
\*   refresh_fail  a refresh token the token endpoint rejects
\*   cache_miss    nothing usable for the account of the record
TokenOutcomes == {"cache_hit", "refresh_ok", "refresh_fail", "cache_miss"}

\* DeviceCodeCredential.GetToken(ctx, scopes)
GetToken(cred, ctx, tok) ==
    LET refresh == tok \in {"refresh_ok", "refresh_fail"}
        interactive == tok = "cache_miss" /\ ~cred.DisableAutomaticAuthentication
    IN  [err |-> IF tok \in {"cache_hit", "refresh_ok"} THEN "nil"
                 ELSE "authentication required",
         prompted |-> interactive,
         calls |-> IF refresh THEN <<RemoteCall("token", ctx)>>
                   ELSE IF interactive THEN <<RemoteCall("devicecode", ctx)>>
                   ELSE <<>>]

\* IsLoggedIn as it would be if a record that loads were enough
IsLoggedIn_recordOnly(m, f, tok) ==
    LET l == LoadCredential(m, f)
    IN  [ok |-> l.err = "nil", mgr |-> l.mgr, loadErr |-> l.err,
         prompted |-> FALSE, calls |-> <<>>]

\* Manager.IsLoggedIn
IsLoggedIn(m, f, tok) ==
    LET l == LoadCredential(m, f)
        ctx == Background
        t == GetToken(l.mgr.credential, ctx, tok)
    IN  IF l.err # "nil"
        THEN [ok |-> FALSE, mgr |-> l.mgr, loadErr |-> l.err,
              prompted |-> FALSE, calls |-> <<>>]
        ELSE [ok |-> t.err = "nil", mgr |-> l.mgr, loadErr |-> l.err,
              prompted |-> t.prompted, calls |-> t.calls]

\* Logout as it would be if a missing record were an error
Logout_failOnMissing(m, f) ==
    LET r == Remove(f)
    IN  IF r.err # "nil"
        THEN [err |-> "failed to remove auth record", mgr |-> m, file |-> r.file,
              removeErr |-> r.err]
        ELSE [err |-> "nil",
              mgr |-> [m EXCEPT !.credential = NoCredential, !.record = NoRecord],
              file |-> r.file, removeErr |-> r.err]

\* Manager.Logout
Logout(m, f) ==
    LET r == Remove(f)
    IN  IF r.err # "nil" /\ ~IsNotExist(r.err)
        THEN [err |-> "failed to remove auth record", mgr |-> m, file |-> r.file,
              removeErr |-> r.err]
        ELSE [err |-> "nil",
              mgr |-> [m EXCEPT !.credential = NoCredential, !.record = NoRecord],
              file |-> r.file, removeErr |-> r.err]

\* Manager.GetCredential
GetCredential(m) == m.credential

\* ---------------------------------------------------------------- output
FormatTable == "table"
FormatJSON == "json"
FormatPlain == "plain"

\* the strings a caller can pass as a format
FormatStrings == {"json", "plain", "table", "", "invalid", "JSON"}

\* New as it would be if it kept whatever format it is given
New_keepUnknown(format) == [format |-> format, writer |-> "stdout"]

\* output.New(format)
New(format) ==
    LET f == format
    IN  [format |-> IF f # FormatTable /\ f # FormatJSON /\ f # FormatPlain
                    THEN FormatTable ELSE f,
         writer |-> "stdout"]

\* header names and cell texts of the tables under test
HeaderLists == SeqsUpTo({"A", "B"}, MaxCols)
\* the rows: every row of up to MaxCols cells, and one that is longer than
\* any header list
CellLists ==
    SeqsUpTo({"x", "y"}, MaxCols)
        \cup {[i \in 1..(MaxCols + 1) |-> IF i = 1 THEN "x" ELSE "y"]}

\* output.NewTable(headers...)
NewTable(headers) == [headers |-> headers, rows |-> <<>>]

\* AddRow as it would be if it put the new row first
AddRow_prepend(t, cells) == [t EXCEPT !.rows = <<cells>> \o @]

\* Table.AddRow(cells...)
AddRow(t, cells) == [t EXCEPT !.rows = Append(@, cells)]

\* Table.ToPlain
ToPlain(t) == t.rows

\* a Go map[string]string is a function on the set of its keys
EmptyMap == [k \in {} |-> ""]
\* m[k] = v
MapPut(m, k, v) == [x \in DOMAIN m \cup {k} |-> IF x = k THEN v ELSE m[x]]

\* the inner loop of ToJSON from cell j on, as it would be if it stopped at
\* the first cell
RECURSIVE RowToMap_firstCellOnly(_, _, _, _)
RowToMap_firstCellOnly(headers, row, j, m) ==
    IF j > Len(row) \/ j > 1 THEN m
    ELSE IF j <= Len(headers)
    THEN RowToMap_firstCellOnly(headers, row, j + 1, MapPut(m, headers[j], row[j]))
    ELSE RowToMap_firstCellOnly(headers, row, j + 1, m)

\* the inner loop of ToJSON from cell j on: for j, cell := range row
RECURSIVE RowToMap(_, _, _, _)
RowToMap(headers, row, j, m) ==
    IF j > Len(row) THEN m
    ELSE IF j <= Len(headers)
    THEN RowToMap(headers, row, j + 1, MapPut(m, headers[j], row[j]))
    ELSE RowToMap(headers, row, j + 1, m)

\* Table.ToJSON
ToJSON(t) == [i \in 1..Len(t.rows) |-> RowToMap(t.headers, t.rows[i], 1, EmptyMap)]

\* Table.Render: the header line and the separator when there are headers,
\* then the rows; header names here are one character long
Render(t) ==
    [layout |-> "table",
     body |-> (IF Len(t.headers) > 0
               THEN <<t.headers, [i \in 1..Len(t.headers) |-> "-"]>>
               ELSE <<>>) \o t.rows]

\* Formatter.printJSON
printJSON(data) == [layout |-> "json", body |-> data]

\* Formatter.printPlain of a [][]string
printPlain(rows) == [layout |-> "plain", body |-> rows]

\* output.PrintTable(format, table): what is written
PrintTable(format, t) ==
    CASE format = FormatJSON -> printJSON(ToJSON(t))
      [] format = FormatPlain -> printPlain(ToPlain(t))
      [] OTHER -> Render(t)

\* ------------------------------------------------------- mail: formatting
\* a Go string is a sequence of bytes; len and s[:n] count bytes
Texts == SeqsUpTo({"a", "b"}, MaxTextLen)

\* the values of maxLen a caller can pass
MaxLens == (0 - 1)..MaxLenArg

Ellipsis == <<".", ".", ".">>
NoSubject == <<"(", "n", "o", " ", "s", "u", "b", "j", "e", "c", "t", ")">>

\* how a call ends: it returns a value, or the goroutine panics
Returned(v) == [panic |-> FALSE, value |-> v]
Panic == [panic |-> TRUE, value |-> <<>>]

\* s[:n], which panics when n is out of range
SliceTo(s, n) == IF n < 0 \/ n > Len(s) THEN Panic ELSE Returned(SubSeq(s, 1, n))

\* a calendar date and time of day, in the location the time.Time carries
Time(y, mo, d, h, mi) == [Year |-> y, Month |-> mo, Day |-> d, Hour |-> h, Minute |-> mi]

Message(from, subject, receivedAt) ==
    [From |-> from, Subject |-> subject, ReceivedAt |-> receivedAt]

\* FormatFrom as it would be if it cut at maxLen and then added the dots
FormatFrom_cutAtMaxLen(m, maxLen) ==
    IF Len(m.From) > maxLen
    THEN LET head == SliceTo(m.From, maxLen)
         IN  IF head.panic THEN Panic ELSE Returned(head.value \o Ellipsis)
    ELSE Returned(m.From)

\* Message.FormatFrom(maxLen)
FormatFrom(m, maxLen) ==
    IF Len(m.From) > maxLen
    THEN LET head == SliceTo(m.From, maxLen - 3)
         IN  IF head.panic THEN Panic ELSE Returned(head.value \o Ellipsis)
    ELSE Returned(m.From)

\* FormatSubject as it would be without the placeholder
FormatSubject_noPlaceholder(m, maxLen) ==
    LET subject == m.Subject
    IN  IF Len(subject) > maxLen
        THEN LET head == SliceTo(subject, maxLen - 3)
             IN  IF head.panic THEN Panic ELSE Returned(head.value \o Ellipsis)
        ELSE Returned(subject)

\* Message.FormatSubject(maxLen)
FormatSubject(m, maxLen) ==
    LET subject == IF m.Subject = <<>> THEN NoSubject ELSE m.Subject
    IN  IF Len(subject) > maxLen
        THEN LET head == SliceTo(subject, maxLen - 3)
             IN  IF head.panic THEN Panic ELSE Returned(head.value \o Ellipsis)
        ELSE Returned(subject)

\* Time.Format with the three layouts FormatDate uses and the two of the
\* calendar package (the zone offset RFC3339 adds is that of the location)
Format(t, layout) ==
    CASE layout = "15:04" -> [layout |-> layout, fields |-> <<t.Hour, t.Minute>>]
      [] layout = "Jan 02" -> [layout |-> layout, fields |-> <<t.Month, t.Day>>]
      [] layout = "2006-01-02" -> [layout |-> layout, fields |-> <<t.Year, t.Month, t.Day>>]
      [] layout \in {"2006-01-02T15:04:05Z07:00", "2006-01-02T15:04:05"} ->
            [layout |-> layout, fields |-> <<t.Year, t.Month, t.Day, t.Hour, t.Minute>>]

\* FormatDate as it would be if the same day of any year counted as today
FormatDate_ignoreYear(m, now) ==
    IF m.ReceivedAt.Month = now.Month /\ m.ReceivedAt.Day = now.Day
    THEN Format(m.ReceivedAt, "15:04")
    ELSE IF m.ReceivedAt.Year = now.Year
    THEN Format(m.ReceivedAt, "Jan 02")
    ELSE Format(m.ReceivedAt, "2006-01-02")

\* Message.FormatDate with time.Now() = now
FormatDate(m, now) ==
    IF /\ m.ReceivedAt.Year = now.Year
       /\ m.ReceivedAt.Month = now.Month
       /\ m.ReceivedAt.Day = now.Day
    THEN Format(m.ReceivedAt, "15:04")
    ELSE IF m.ReceivedAt.Year = now.Year
    THEN Format(m.ReceivedAt, "Jan 02")
    ELSE Format(m.ReceivedAt, "2006-01-02")

\* the dates and times of day the received date and the clock range over
Times ==
    {Time(y, mo, d, h, 30) : y \in {2023, 2024}, mo \in {1, 2}, d \in {1, 2}, h \in {0, 23}}

\* ------------------------------------------------------- mail: StripHTML
LF == "\n"
Whitespace == {" ", "\t", LF, "\r"}

\* strings.HasPrefix(s[i-1:], p)
HasPrefixAt(s, i, p) == i + Len(p) - 1 <= Len(s) /\ SubSeq(s, i, i + Len(p) - 1) = p

\* strings.Contains
Contains(s, p) == \E i \in 1..Len(s) : HasPrefixAt(s, i, p)

\* strings.ReplaceAll, from byte i on: left to right, matches do not overlap
RECURSIVE ReplaceAllFrom(_, _, _, _)
ReplaceAllFrom(s, i, old, new) ==
    IF i > Len(s) THEN <<>>
    ELSE IF HasPrefixAt(s, i, old)
    THEN new \o ReplaceAllFrom(s, i + Len(old), old, new)
    ELSE <<s[i]>> \o ReplaceAllFrom(s, i + 1, old, new)

\* the line breaks StripHTML puts in place of tags, in its order
TagBreaks ==
    << <<(<<"<", "b", "r", ">">>), <<LF>> >>,
       <<(<<"<", "b", "r", "/", ">">>), <<LF>> >>,
       <<(<<"<", "b", "r", " ", "/", ">">>), <<LF>> >>,
       <<(<<"<", "/", "p", ">">>), <<LF, LF>> >>,
       <<(<<"<", "/", "d", "i", "v", ">">>), <<LF>> >> >>

\* the entities StripHTML decodes, in its order
Entities ==
    << <<(<<"&", "n", "b", "s", "p", ";">>), <<" ">> >>,
       <<(<<"&", "a", "m", "p", ";">>), <<"&">> >>,
       <<(<<"&", "l", "t", ";">>), <<"<">> >>,
       <<(<<"&", "g", "t", ";">>), <<">">> >>,
       <<(<<"&", "q", "u", "o", "t", ";">>), <<"\"">> >>,
       <<(<<"&", "#", "3", "9", ";">>), <<"'">> >> >>

\* a run of strings.ReplaceAll calls, one per pair of the table, from pair k
RECURSIVE ReplaceEach(_, _, _)
ReplaceEach(s, pairs, k) ==
    IF k > Len(pairs) THEN s
    ELSE ReplaceEach(ReplaceAllFrom(s, 1, pairs[k][1], pairs[k][2]), pairs, k + 1)

\* the tag loop of StripHTML from byte i on: for _, r := range s
RECURSIVE RemoveTags(_, _, _)
RemoveTags(s, i, inTag) ==
    IF i > Len(s) THEN <<>>
    ELSE IF s[i] = "<" THEN RemoveTags(s, i + 1, TRUE)
    ELSE IF s[i] = ">" THEN RemoveTags(s, i + 1, FALSE)
    ELSE IF ~inTag THEN <<s[i]>> \o RemoveTags(s, i + 1, inTag)
    ELSE RemoveTags(s, i + 1, inTag)

\* strings.Split(s, "\n") from byte i on, cur being the line so far
RECURSIVE SplitLines(_, _, _)
SplitLines(s, i, cur) ==
    IF i > Len(s) THEN <<cur>>
    ELSE IF s[i] = LF THEN <<cur>> \o SplitLines(s, i + 1, <<>>)
    ELSE SplitLines(s, i + 1, Append(cur, s[i]))

\* strings.TrimSpace
RECURSIVE TrimSpace(_)
TrimSpace(s) ==
    IF s = <<>> THEN s
    ELSE IF s[1] \in Whitespace THEN TrimSpace(Tail(s))
    ELSE IF s[Len(s)] \in Whitespace THEN TrimSpace(SubSeq(s, 1, Len(s) - 1))
    ELSE s

\* the cleaning loop of StripHTML from line k on: trimmed, non-empty lines
RECURSIVE Cleaned(_, _)
Cleaned(lines, k) ==
    IF k > Len(lines) THEN <<>>
    ELSE LET line == TrimSpace(lines[k])
         IN  IF line # <<>> THEN <<line>> \o Cleaned(lines, k + 1)
             ELSE Cleaned(lines, k + 1)

\* strings.Join(lines, "\n")
RECURSIVE Join(_)
Join(lines) ==
    IF lines = <<>> THEN <<>>
    ELSE IF Len(lines) = 1 THEN lines[1]
    ELSE lines[1] \o <<LF>> \o Join(Tail(lines))

\* mail.StripHTML
StripHTML(html) ==
    LET s1 == ReplaceEach(html, TagBreaks, 1)
        s2 == RemoveTags(s1, 1, FALSE)
        s3 == ReplaceEach(s2, Entities, 1)
    IN  Join(Cleaned(SplitLines(s3, 1, <<>>), 1))

\* the pieces HTML bodies under test are put together from
Pieces ==
    {<<"a">>, <<" ">>, <<LF>>, <<"<">>, <<">">>, <<"<", "b", ">">>,
     <<"<", "b", "r", ">">>, <<"<", "/", "p", ">">>, <<"&", "l", "t", ";">>,
     <<"&", "a", "m", "p", ";">>}

\* the concatenations of up to n pieces
RECURSIVE Bodies(_)
Bodies(n) ==
    IF n = 0 THEN {<<>>}
    ELSE LET shorter == Bodies(n - 1)
         IN  shorter \cup {b \o p : b \in shorter, p \in Pieces}

HTMLBodies == Bodies(MaxPieces)

\* ------------------------------------------------ calendar: parseDateTime
\* The dateTime strings of the Graph service and others, by their parts:
\* date and time of day (well-formed or not), the number of digits of the
\* fractional second (0: no fraction), and what follows.
DateTimeString(valid, wall, frac, suffix) ==
    [valid |-> valid, wall |-> wall, frac |-> frac, suffix |-> suffix]

\* "not-a-date", "", "2024-01-15": no date and time of day to read
NotADate == DateTimeString(FALSE, Time(1, 1, 1, 0, 0), 0, "")

DateTimeStrings ==
    {NotADate} \cup
    {DateTimeString(v, w, f, x) :
        v \in BOOLEAN,
        w \in {Time(2024, 1, 15, 14, 30), Time(2023, 12, 31, 23, 59)},
        f \in {0, 3, 7},
        x \in {"", "Z", "+02:00", " UTC"}}

\* the zones of the tz database on the machine, and other names
KnownZones == {"UTC", "America/New_York"}
ZoneNames == KnownZones \cup {"", "Pacific Standard Time", "Mars/Olympus"}

\* time.LoadLocation: the empty name is UTC
LoadLocation(tz) ==
    IF tz = "" THEN [err |-> FALSE, loc |-> "UTC"]
    ELSE IF tz \in KnownZones THEN [err |-> FALSE, loc |-> tz]
    ELSE [err |-> TRUE, loc |-> "nil"]

\* the layouts parseDateTime tries, in its order
Layouts ==
    <<"2006-01-02T15:04:05.0000000", "2006-01-02T15:04:05", "2006-01-02T15:04:05Z",
      "2006-01-02T15:04:05Z07:00">>

\* a time.Time: the zero value, or a time of day in a zone
ZeroTimeValue == [zero |-> TRUE, wall |-> Time(1, 1, 1, 0, 0), zone |-> "UTC"]
TimeIn(wall, zone) == [zero |-> FALSE, wall |-> wall, zone |-> zone]

\* time.ParseInLocation(layout, dt, loc) for those layouts.  A layout with
\* .0000000 wants exactly seven digits; one without a fraction accepts a
\* fraction of any length after the seconds; a Z that is not followed by 07
\* is a literal, so the time is read in loc; Z07:00 reads Z as UTC and takes
\* an offset as it is; text left over is an error.
ParseInLocation(layout, dt, loc) ==
    LET matches ==
            /\ dt.valid
            /\ CASE layout = Layouts[1] -> dt.frac = 7 /\ dt.suffix = ""
                 [] layout = Layouts[2] -> dt.suffix = ""
                 [] layout = Layouts[3] -> dt.suffix = "Z"
                 [] layout = Layouts[4] -> dt.suffix \in {"Z", "+02:00"}
        zone == IF layout = Layouts[4]
                THEN (IF dt.suffix = "Z" THEN "UTC" ELSE dt.suffix)
                ELSE loc
    IN  IF matches
        THEN [err |-> FALSE, t |-> TimeIn(dt.wall, zone)]
        ELSE [err |-> TRUE, t |-> ZeroTimeValue]

\* the loop of parseDateTime from layout k on
RECURSIVE TryFormats(_, _, _, _)
TryFormats(formats, k, dt, loc) ==
    IF k > Len(formats) THEN [layout |-> 0, t |-> ZeroTimeValue]
    ELSE LET p == ParseInLocation(formats[k], dt, loc)
         IN  IF ~p.err THEN [layout |-> k, t |-> p.t]
             ELSE TryFormats(formats, k + 1, dt, loc)

\* parseDateTime as it would be if RFC3339 were tried before the Z layout
parseDateTime_rfc3339First(dt, tz) ==
    LET l == LoadLocation(tz)
        loc == IF l.err THEN "UTC" ELSE l.loc
    IN  TryFormats(<<Layouts[1], Layouts[2], Layouts[4], Layouts[3]>>, 1, dt, loc)

\* calendar.parseDateTime(dt, tz): the time returned and the layout that
\* produced it (0: none)
parseDateTime(dt, tz) ==
    LET l == LoadLocation(tz)
        loc == IF l.err THEN "UTC" ELSE l.loc
    IN  TryFormats(Layouts, 1, dt, loc)

\* ------------------------------------------------- time: dates and clocks
\* The proleptic Gregorian calendar as package time counts it.
IsLeap(y) == (y % 4 = 0 /\ y % 100 # 0) \/ y % 400 = 0

\* days from 1 January of year 1 to 1 January of year y
DaysBeforeYear(y) == 365 * (y - 1) + (y - 1) \div 4 - (y - 1) \div 100 + (y - 1) \div 400

\* days from 1 January to the first of month mo; mo = 13 gives the year's length
DaysBefore(y, mo) ==
    <<0, 31, 59, 90, 120, 151, 181, 212, 243, 273, 304, 334, 365>>[mo]
        + (IF IsLeap(y) /\ mo > 2 THEN 1 ELSE 0)

\* the day count of a date; the day of the month may lie outside the month
AbsDays(y, mo, d) == DaysBeforeYear(y) + DaysBefore(y, mo) + d - 1

\* minutes from the start of year 1 to t
AbsMinutes(t) == AbsDays(t.Year, t.Month, t.Day) * 1440 + t.Hour * 60 + t.Minute

\* the date and time of day at a count of minutes
TimeAt(minutes) ==
    LET n == minutes \div 1440
        y == CHOOSE c \in ((n \div 366) + 1)..((n \div 365) + 1) :
                DaysBeforeYear(c) <= n /\ n < DaysBeforeYear(c + 1)
        yday == n - DaysBeforeYear(y)
        mo == CHOOSE c \in 1..12 : DaysBefore(y, c) <= yday /\ yday < DaysBefore(y, c + 1)
    IN  Time(y, mo, yday - DaysBefore(y, mo) + 1, (minutes % 1440) \div 60, minutes % 60)

\* time.Date(y, mo, d, h, mi, 0, 0, loc): a day outside the month is
\* normalised by counting on from the first of the month
Date(y, mo, d, h, mi) == TimeAt(AbsDays(y, mo, d) * 1440 + h * 60 + mi)

\* Time.Weekday: Sunday is 0; 1 January of year 1 is a Monday
Weekday(t) == (AbsDays(t.Year, t.Month, t.Day) + 1) % 7

\* Time.AddDate(0, 0, days)
AddDate(t, days) == Date(t.Year, t.Month, t.Day + days, t.Hour, t.Minute)

\* Time.Add(d) for a duration of whole minutes
Add(t, minutes) == TimeAt(AbsMinutes(t) + minutes)

\* ------------------------------------------------- calendar: ListEvents
\* calendar.ListOptions as the calendar commands fill it
CalendarListOptions(start, end) == [StartTime |-> start, EndTime |-> end, Top |-> 0]

\* the request calendar.ListEvents(ctx, client, opts) issues
ListEvents(opts) ==
    [method |-> "GET", path |-> "me/calendar/calendarView",
     StartDateTime |-> Format(opts.StartTime, "2006-01-02T15:04:05Z07:00"),
     EndDateTime |-> Format(opts.EndTime, "2006-01-02T15:04:05Z07:00"),
     Top |-> IF opts.Top = 0 THEN 50 ELSE opts.Top,
     Orderby |-> "start/dateTime"]

\* ---------------------------------------------------- mail: ListMessages
\* mail.ListOptions as runMailList fills it
ListOptions(top, unreadOnly, folderID) ==
    [Top |-> top, Skip |-> 0, Filter |-> "", OrderBy |-> "",
     UnreadOnly |-> unreadOnly, FolderID |-> folderID]

\* the query parameters of a request; "" and 0 stand for a parameter not set
QueryParameters(top, orderby, filter, skip) ==
    [present |-> TRUE, Top |-> top, Orderby |-> orderby, Filter |-> filter, Skip |-> skip]
\* a nil request configuration: the service's defaults apply
NilRequestConfiguration ==
    [present |-> FALSE, Top |-> 0, Orderby |-> "", Filter |-> "", Skip |-> 0]

\* a GET of a message collection
GetMessages(path, requestConfig) ==
    [method |-> "GET", path |-> path, config |-> requestConfig]

\* the request mail.ListMessages(ctx, client, opts) issues
ListMessages(opts) ==
    LET top == IF opts.Top = 0 THEN 25 ELSE opts.Top
        orderBy == IF opts.OrderBy = "" THEN "receivedDateTime desc" ELSE opts.OrderBy
        filter == IF opts.UnreadOnly
                  THEN (IF opts.Filter # "" THEN "(filter) and isRead eq false"
                        ELSE "isRead eq false")
                  ELSE opts.Filter
        requestConfig ==
            QueryParameters(top, orderBy, filter, IF opts.Skip > 0 THEN opts.Skip ELSE 0)
    IN  IF opts.FolderID # ""
        THEN GetMessages(<<"me", "mailFolders", opts.FolderID, "messages">>,
                         NilRequestConfiguration)
        ELSE GetMessages(<<"me", "messages">>, requestConfig)

\* -------------------------------------------------------------- commands
VARIABLES
    dir,            \* ~/.config/octl exists
    configFile,     \* condition of ~/.config/octl/config.json
    authFile,       \* condition of ~/.config/octl/auth_record.json
    cmd,            \* the command (or package function) of the latest run
    clientIDFlag,   \* --client-id of the latest run
    envClientID,    \* OCTL_CLIENT_ID of the latest run
    jsonOutput,     \* --json of the latest run
    plainOutput,    \* --plain of the latest run
    mgr,            \* the Manager the latest run built
    out,            \* what the latest run returned, printed and requested
    arg,            \* argument of the latest direct call of a config function
    ret,            \* its result
    hist,           \* history: logins and logouts so far
    mailListFlags,  \* --count, --unread and --folder of the latest run
    input,          \* what else the latest run was given: arguments, flags,
                    \* the clock, the token the identity library found
    table,          \* the output.Table a caller of the output package holds
    added           \* history: the rows given to AddRow since NewTable

vars == <<dir, configFile, authFile, cmd, clientIDFlag, envClientID, jsonOutput,
          plainOutput, mgr, out, arg, ret, hist, mailListFlags, input, table, added>>

fsVars == <<dir, configFile, authFile>>
apiVars == <<arg, ret, table, added>>

\* the client ID runLogout falls back to
Dummy == <<"d", "u", "m", "m", "y">>

\* the result of a direct call: the error, the client ID returned (Load,
\* GetClientID) or found (SetClientID), and the error of the Load inside
\* SetClientID
NoResult == [err |-> "nil", ClientID |-> EmptyString, loadErr |-> "nil"]

\* the observations of a run that has done nothing yet
FreshOut ==
    [err |-> "nil",            \* the error the command returned
     resolved |-> FALSE,       \* config.GetClientID was called
     clientID |-> EmptyString, \* the client ID the run worked with
     loadCalled |-> FALSE,     \* Manager.LoadCredential was called
     loadErr |-> "nil",        \* and what it returned
     removeErr |-> "nil",      \* what os.Remove returned in Logout
     stdout |-> <<>>,          \* lines written to standard output
     stderr |-> <<>>,          \* lines written to standard error
     calls |-> <<>>,           \* remote calls issued, in order
     prompted |-> FALSE,       \* the device-code prompt was shown
     format |-> "none"]        \* what GetOutputFormat returned, if called

NoFlagLogin == [present |-> FALSE, X |-> EmptyString, saved |-> FALSE]

FreshHist ==
    [login |-> NoRecord,       \* record of the latest successful Login, no Logout since
     loggedOut |-> FALSE,      \* a Logout succeeded and no Login has since
     flagLogin |-> NoFlagLogin,\* latest successful login --client-id X, no --client-id since
     byFlag |-> FALSE]         \* hist.login is the login of hist.flagLogin

\* GetOutputFormat as it would be if --plain were looked at first
GetOutputFormat_plainFirst(j, p) ==
    IF p THEN "plain"
    ELSE IF j THEN "json"
    ELSE "table"

\* cmd.GetOutputFormat
GetOutputFormat(j, p) ==
    IF j THEN "json"
    ELSE IF p THEN "plain"
    ELSE "table"

\* getGraphClient as it would be if a failed LoadCredential were ignored
getGraphClient_ignoreLoadErr(env, cf, af) ==
    LET clientID == GetClientID(env, cf)
        authMgr == NewManager(clientID)
        l == LoadCredential(authMgr, af)
        o1 == [FreshOut EXCEPT !.resolved = TRUE, !.clientID = clientID]
        o2 == [o1 EXCEPT !.loadCalled = TRUE, !.loadErr = l.err]
    IN  IF clientID = EmptyString
        THEN [err |-> "not configured", mgr |-> NewManager(EmptyString), out |-> o1,
              client |-> NoCredential]
        ELSE [err |-> "nil", mgr |-> l.mgr, out |-> o2, client |-> GetCredential(l.mgr)]

\* cmd.getGraphClient
getGraphClient(env, cf, af) ==
    LET clientID == GetClientID(env, cf)
        authMgr == NewManager(clientID)
        l == LoadCredential(authMgr, af)
        o1 == [FreshOut EXCEPT !.resolved = TRUE, !.clientID = clientID]
        o2 == [o1 EXCEPT !.loadCalled = TRUE, !.loadErr = l.err]
    IN  IF clientID = EmptyString
        THEN [err |-> "not configured", mgr |-> NewManager(EmptyString), out |-> o1,
              client |-> NoCredential]
        ELSE IF l.err # "nil"
        THEN [err |-> "not logged in", mgr |-> l.mgr, out |-> o2, client |-> NoCredential]
        ELSE [err |-> "nil", mgr |-> l.mgr, out |-> o2, client |-> GetCredential(l.mgr)]

\* one Graph request through the client: the authentication provider asks
\* the credential for a token under the request's context, then the request
\* is sent under the same context
GraphRequest(cred, ctx, op, tok) ==
    LET t == GetToken(cred, ctx, tok)
    IN  [err |-> t.err,
         prompted |-> t.prompted,
         calls |-> IF t.err = "nil" THEN Append(t.calls, RemoteCall(op, ctx)) ELSE t.calls]

\* no process is running: the next invocation can start
Idle == cmd = "none"

\* the flags of mail list: --count, --unread, --folder and their defaults
MailListFlags(count, unread, folder) ==
    [mailListCount |-> count, mailListUnread |-> unread, mailListFolder |-> folder]
DefaultMailListFlags == MailListFlags(25, FALSE, "")

\* a run that was given nothing of its own
NoInput == [given |-> FALSE]

\* the command, the environment and the persistent flags of a run
GlobalInputs(name, flag, env, j, p) ==
    /\ cmd' = name
    /\ clientIDFlag' = flag
    /\ envClientID' = env
    /\ jsonOutput' = j
    /\ plainOutput' = p

\* the inputs of a run, as cobra and the environment hand them over
Inputs(name, flag, env, j, p) ==
    /\ GlobalInputs(name, flag, env, j, p)
    /\ mailListFlags' = DefaultMailListFlags
    /\ input' = NoInput

\* octl auth login [--client-id flag]
runLogin(flag, env, outcome) ==
    \E clientID \in {IF flag = EmptyString THEN GetClientID(env, configFile) ELSE flag} :
    \E flagged \in {flag # EmptyString} :
    \E s \in {SetClientID(dir, configFile, flag)} :
    \E d1 \in {IF flagged THEN s.dir ELSE dir} :
    \E cf1 \in {IF flagged THEN s.file ELSE configFile} :
    \E m \in {NewManager(clientID)} :
    \E ctx \in {WithTimeout(LoginTimeoutSec)} :
    \E l \in {Login(m, ctx, outcome, d1, authFile)} :
    LET o0 == [FreshOut EXCEPT !.resolved = ~flagged, !.clientID = clientID]
        o1 == [o0 EXCEPT !.stderr = IF flagged /\ s.err # "nil"
                                    THEN <<"Error: failed to save client ID">>
                                    ELSE <<>>,
                         !.stdout = <<"Starting authentication...">>]
        o2 == [o1 EXCEPT !.calls = l.calls, !.prompted = l.prompted]
    IN  IF clientID = EmptyString
        THEN /\ out' = [o0 EXCEPT !.err = "client ID required"]
             /\ mgr' = NewManager(EmptyString)
             /\ UNCHANGED <<fsVars, hist>>
        ELSE /\ dir' = l.dir
             /\ configFile' = cf1
             /\ authFile' = l.file
             /\ mgr' = l.mgr
             /\ IF l.err # "nil"
                THEN /\ out' = [o2 EXCEPT !.err = l.err]
                     /\ hist' = IF flagged
                                THEN [hist EXCEPT !.flagLogin = NoFlagLogin, !.byFlag = FALSE]
                                ELSE hist
                ELSE /\ out' = [o2 EXCEPT !.stdout = Append(@, "Successfully logged in as")]
                     /\ hist' = [hist EXCEPT
                                   !.login = l.mgr.record,
                                   !.loggedOut = FALSE,
                                   !.byFlag = flagged,
                                   !.flagLogin = IF flagged
                                                 THEN [present |-> TRUE, X |-> flag,
                                                       saved |-> s.err = "nil"]
                                                 ELSE @]

RunLogin ==
    /\ Idle
    /\ \E flag \in Strings, env \in Strings, outcome \in AuthOutcomes :
            /\ Inputs("auth login", flag, env, FALSE, FALSE)
            /\ runLogin(flag, env, outcome)
            /\ UNCHANGED apiVars

\* octl auth logout
runLogout(env) ==
    \E id \in {GetClientID(env, configFile)} :
    \E clientID \in {IF id = EmptyString THEN Dummy ELSE id} :
    \E m \in {NewManager(clientID)} :
    \E l \in {Logout(m, authFile)} :
    LET o0 == [FreshOut EXCEPT !.resolved = TRUE, !.clientID = id, !.removeErr = l.removeErr]
    IN  /\ authFile' = l.file
        /\ mgr' = l.mgr
        /\ UNCHANGED <<dir, configFile>>
        /\ IF l.err # "nil"
           THEN /\ out' = [o0 EXCEPT !.err = l.err]
                /\ hist' = hist
           ELSE /\ out' = [o0 EXCEPT !.stdout = <<"Logged out successfully">>]
                /\ hist' = [hist EXCEPT !.login = NoRecord, !.loggedOut = TRUE,
                                        !.byFlag = FALSE]

RunLogout ==
    /\ Idle
    /\ \E env \in Strings :
            /\ Inputs("auth logout", EmptyString, env, FALSE, FALSE)
            /\ runLogout(env)
            /\ UNCHANGED apiVars

\* octl auth status
runStatus(env, tok) ==
    \E clientID \in {GetClientID(env, configFile)} :
    \E m \in {NewManager(clientID)} :
    \E i \in {IsLoggedIn(m, authFile, tok)} :
    \E l \in {LoadCredential(i.mgr, authFile)} :
    LET o0 == [FreshOut EXCEPT !.resolved = TRUE, !.clientID = clientID]
        o1 == [o0 EXCEPT !.loadCalled = TRUE, !.loadErr = i.loadErr,
                         !.calls = i.calls, !.prompted = i.prompted]
    IN  IF clientID = EmptyString
        THEN /\ out' = [o0 EXCEPT !.stdout = <<"Status: Not configured">>]
             /\ mgr' = NewManager(EmptyString)
        ELSE IF i.ok
        THEN /\ out' = [o1 EXCEPT !.loadErr = l.err,
                                  !.stdout = IF l.err = "nil"
                                             THEN <<"Status: Logged in", "Account">>
                                             ELSE <<"Status: Logged in">>]
             /\ mgr' = l.mgr
        ELSE /\ out' = [o1 EXCEPT !.stdout = <<"Status: Not logged in">>]
             /\ mgr' = i.mgr

RunStatus ==
    /\ Idle
    /\ \E env \in Strings, tok \in TokenOutcomes :
            /\ GlobalInputs("auth status", EmptyString, env, FALSE, FALSE)
            /\ mailListFlags' = DefaultMailListFlags
            /\ input' = [tok |-> tok]
            /\ runStatus(env, tok)
            /\ UNCHANGED <<fsVars, hist, apiVars>>

\* What the Graph service answers to a request
ListResults == {"error", "empty", "data"}
ItemResults == {"error", "data"}

\* what a command prints for a result of the given shape:
\*   list     the empty-result line, or the rows in the selected format
\*   rows     the rows in the selected format, also when there are none
\*   item     the object as JSON, or its fields as text
\*   done     a fixed confirmation line
Printed(shape, format, res, emptyMsg, doneMsg) ==
    CASE shape = "list" /\ res = "empty" -> <<emptyMsg>>
      [] shape = "list" /\ res # "empty" -> <<format>>
      [] shape = "rows" -> <<format>>
      [] shape = "item" -> IF format = "json" THEN <<"json">> ELSE <<doneMsg>>
      [] OTHER -> <<doneMsg>>

\* whether a command of this shape gets as far as calling GetOutputFormat
CallsGetOutputFormat(shape, res) ==
    \/ shape = "list" /\ res # "empty"
    \/ shape \in {"rows", "item"}

\* the common course of a mail or calendar command: getGraphClient, the
\* command's own checks (localErr), one request under a 30 second context,
\* then printing
runGraphCommand(op, shape, emptyMsg, doneMsg, localErr, env, j, p, tok, res) ==
    \E g \in {getGraphClient(env, configFile, authFile)} :
    \E ctx \in {WithTimeout(MailTimeoutSec)} :
    \E rq \in {GraphRequest(g.client, ctx, op, tok)} :
    \E format \in {GetOutputFormat(j, p)} :
    LET o1 == [g.out EXCEPT !.calls = rq.calls, !.prompted = rq.prompted]
    IN  /\ mgr' = g.mgr
        /\ UNCHANGED <<fsVars, hist, apiVars>>
        /\ out' = IF g.err # "nil" THEN [g.out EXCEPT !.err = g.err]
                  ELSE IF localErr # "nil" THEN [g.out EXCEPT !.err = localErr]
                  ELSE IF rq.err # "nil" \/ res = "error"
                  THEN [o1 EXCEPT !.err = "request failed"]
                  ELSE [o1 EXCEPT
                          !.format = IF CallsGetOutputFormat(shape, res)
                                     THEN format ELSE "none",
                          !.stdout = Printed(shape, format, res, emptyMsg, doneMsg)]

\* the values given to --count (25 when not given) and --folder
Counts == {25, 5, 0}
Folders == {"", "inbox"}

\* octl mail list [--count n] [--unread] [--folder f]
RunMailList ==
    /\ Idle
    /\ \E env \in Strings, j \in BOOLEAN, p \in BOOLEAN,
           tok \in TokenOutcomes, res \in ListResults,
           count \in Counts, unread \in BOOLEAN, folder \in Folders :
            /\ GlobalInputs("mail list", EmptyString, env, j, p)
            /\ mailListFlags' = MailListFlags(count, unread, folder)
            /\ input' = NoInput
            /\ runGraphCommand(ListMessages(ListOptions(count, unread, folder)),
                               "list", "No messages found", "",
                               "nil", env, j, p, tok, res)

\* octl mail read <message-id>
RunMailRead ==
    /\ Idle
    /\ \E env \in Strings, j \in BOOLEAN, p \in BOOLEAN,
           tok \in TokenOutcomes, res \in ItemResults :
            /\ Inputs("mail read", EmptyString, env, j, p)
            /\ runGraphCommand("GET message", "item", "", "message text",
                               "nil", env, j, p, tok, res)

\* octl mail search <query>
RunMailSearch ==
    /\ Idle
    /\ \E env \in Strings, j \in BOOLEAN, p \in BOOLEAN,
           tok \in TokenOutcomes, res \in ListResults :
            /\ Inputs("mail search", EmptyString, env, j, p)
            /\ runGraphCommand("GET messages?search", "list", "No messages found", "",
                               "nil", env, j, p, tok, res)

\* octl mail folders
RunMailFolders ==
    /\ Idle
    /\ \E env \in Strings, j \in BOOLEAN, p \in BOOLEAN,
           tok \in TokenOutcomes, res \in ListResults :
            /\ Inputs("mail folders", EmptyString, env, j, p)
            /\ runGraphCommand("GET mailFolders", "rows", "", "",
                               "nil", env, j, p, tok, res)

\* octl mail send
RunMailSend ==
    /\ Idle
    /\ \E env \in Strings, j \in BOOLEAN, p \in BOOLEAN,
           tok \in TokenOutcomes, res \in ItemResults :
            /\ Inputs("mail send", EmptyString, env, j, p)
            /\ runGraphCommand("POST sendMail", "done", "", "Message sent successfully",
                               "nil", env, j, p, tok, res)

\* octl mail draft
RunMailDraft ==
    /\ Idle
    /\ \E env \in Strings, j \in BOOLEAN, p \in BOOLEAN,
           tok \in TokenOutcomes, res \in ItemResults :
            /\ Inputs("mail draft", EmptyString, env, j, p)
            /\ runGraphCommand("POST messages", "item", "", "Draft created",
                               "nil", env, j, p, tok, res)

\* octl mail move <message-id> <folder>
RunMailMove ==
    /\ Idle
    /\ \E env \in Strings, j \in BOOLEAN, p \in BOOLEAN,
           tok \in TokenOutcomes, res \in ItemResults :
            /\ Inputs("mail move", EmptyString, env, j, p)
            /\ runGraphCommand("POST message/move", "done", "", "Message moved successfully",
                               "nil", env, j, p, tok, res)

\* octl calendar list
RunCalendarList ==
    /\ Idle
    /\ \E env \in Strings, j \in BOOLEAN, p \in BOOLEAN,
           tok \in TokenOutcomes, res \in ListResults :
            /\ Inputs("calendar list", EmptyString, env, j, p)
            /\ runGraphCommand("GET calendarView", "list", "No events found", "",
                               "nil", env, j, p, tok, res)

\* octl calendar today
RunCalendarToday ==
    /\ Idle
    /\ \E env \in Strings, j \in BOOLEAN, p \in BOOLEAN,
           tok \in TokenOutcomes, res \in ListResults :
            /\ Inputs("calendar today", EmptyString, env, j, p)
            /\ runGraphCommand("GET calendarView", "list", "No events today", "",
                               "nil", env, j, p, tok, res)

\* what time.Now() returns in the user's location: a Sunday after a leap
\* day, New Year's Day midweek, a Monday at midnight, a Sunday on New Year's
\* Eve, a Thursday early in March
Nows ==
    {Time(2024, 3, 3, 23, 59), Time(2025, 1, 1, 0, 0), Time(2024, 1, 1, 0, 0),
     Time(2023, 12, 31, 23, 59), Time(2023, 3, 2, 8, 0)}

\* the window of runCalendarWeek as it would be if Sunday stayed weekday 0
runCalendarWeek_sundayIsZero(now) ==
    LET weekday == Weekday(now)
        start == Date(now.Year, now.Month, now.Day - weekday + 1, 0, 0)
        end == AddDate(start, 7)
    IN  CalendarListOptions(start, end)

\* the window runCalendarWeek asks for when time.Now() is now
runCalendarWeek(now) ==
    LET weekday == IF Weekday(now) = 0 THEN 7 ELSE Weekday(now)
        start == Date(now.Year, now.Month, now.Day - weekday + 1, 0, 0)
        end == AddDate(start, 7)
    IN  CalendarListOptions(start, end)

\* octl calendar week
RunCalendarWeek ==
    /\ Idle
    /\ \E env \in Strings, j \in BOOLEAN, p \in BOOLEAN,
           tok \in TokenOutcomes, res \in ListResults, now \in Nows :
            /\ GlobalInputs("calendar week", EmptyString, env, j, p)
            /\ mailListFlags' = DefaultMailListFlags
            /\ input' = [now |-> now]
            /\ runGraphCommand(ListEvents(runCalendarWeek(now)), "list",
                               "No events this week", "",
                               "nil", env, j, p, tok, res)

\* octl calendar show <event-id>
RunCalendarShow ==
    /\ Idle
    /\ \E env \in Strings, j \in BOOLEAN, p \in BOOLEAN,
           tok \in TokenOutcomes, res \in ItemResults :
            /\ Inputs("calendar show", EmptyString, env, j, p)
            /\ runGraphCommand("GET event", "item", "", "event text",
                               "nil", env, j, p, tok, res)

\* the checks runCalendarCreate makes on --start, --end and --duration
\* before it builds the request
CreateParseError(allDay, startOK, endGiven, endOK, durationOK) ==
    IF ~startOK
    THEN IF allDay THEN "invalid start date" ELSE "invalid start time"
    ELSE IF endGiven
    THEN IF endOK THEN "nil" ELSE "invalid end time"
    ELSE IF allDay THEN "nil"
    ELSE IF durationOK THEN "nil" ELSE "invalid duration"

\* a date without a time of day, as --start wants it for an all-day event
DateOnlyString(valid, y, mo, d) == DateTimeString(valid, Time(y, mo, d, 0, 0), 0, "date only")

\* the empty string: a flag that was not given
EmptyFlag == DateTimeString(FALSE, Time(1, 1, 1, 0, 0), 0, "empty")

\* time.Parse(layout, s): as ParseInLocation in UTC; the layout 2006-01-02
\* reads a date and nothing else
Parse(layout, s) ==
    IF layout = "2006-01-02"
    THEN IF s.valid /\ s.suffix = "date only"
         THEN [err |-> FALSE, t |-> TimeIn(s.wall, "UTC")]
         ELSE [err |-> TRUE, t |-> ZeroTimeValue]
    ELSE ParseInLocation(layout, s, "UTC")

\* values given to --duration
DurationStrings == {"2h30m", "soon"}

\* time.ParseDuration on those, in minutes
ParseDuration(d) ==
    CASE d = "1h" -> [err |-> FALSE, minutes |-> 60]
      [] d = "30m" -> [err |-> FALSE, minutes |-> 30]
      [] d = "2h30m" -> [err |-> FALSE, minutes |-> 150]
      [] OTHER -> [err |-> TRUE, minutes |-> 0]

\* the flags of calendar create the times are taken from: --all-day,
\* --start (without zone, with an offset, a date, no date at all), --end
\* (not given, a time, no date at all) and --duration
CreateFlags ==
    [allDay : BOOLEAN,
     start : {DateTimeString(TRUE, Time(2024, 2, 28, 23, 30), 0, ""),
              DateTimeString(TRUE, Time(2024, 2, 28, 23, 30), 0, "+02:00"),
              DateOnlyString(TRUE, 2024, 12, 31),
              NotADate},
     end : {EmptyFlag, DateTimeString(TRUE, Time(2024, 2, 29, 1, 0), 0, ""), NotADate},
     duration : DurationStrings]

\* calendar.CreateEventOptions as far as the times go
CreateEventOptions(start, end, isAllDay) ==
    [Start |-> start, End |-> end, IsAllDay |-> isAllDay]

\* the request calendar.CreateEvent(ctx, client, opts) issues: both times
\* as they read in their own zone, declared as UTC
CreateEvent(opts) ==
    [method |-> "POST", path |-> "me/events",
     start |-> [dateTime |-> Format(opts.Start.wall, "2006-01-02T15:04:05"),
                timeZone |-> "UTC"],
     end |-> [dateTime |-> Format(opts.End.wall, "2006-01-02T15:04:05"),
              timeZone |-> "UTC"],
     isAllDay |-> opts.IsAllDay]

\* the two layouts runCalendarCreate tries on a time: RFC3339, then the
\* same without zone
ParseTime(s) ==
    LET p == Parse(Layouts[4], s)
    IN  IF ~p.err THEN p ELSE Parse(Layouts[2], s)

\* runCalendarCreate as it would be if --duration were looked at before --end
runCalendarCreate_durationFirst(f) ==
    LET startP == IF f.allDay THEN Parse("2006-01-02", f.start) ELSE ParseTime(f.start)
        endP == ParseTime(f.end)
        duration == ParseDuration(f.duration)
        endTime == IF ~duration.err
                   THEN TimeIn(Add(startP.t.wall, duration.minutes), startP.t.zone)
                   ELSE IF f.end # EmptyFlag THEN endP.t
                   ELSE TimeIn(AddDate(startP.t.wall, 1), startP.t.zone)
    IN  [err |-> CreateParseError(f.allDay, ~startP.err, f.end # EmptyFlag, ~endP.err,
                                  ~duration.err),
         opts |-> CreateEventOptions(startP.t, endTime, f.allDay)]

\* the times runCalendarCreate works out of its flags: the error of the
\* first check that fails, and the options it hands to CreateEvent
runCalendarCreate(f) ==
    LET startP == IF f.allDay THEN Parse("2006-01-02", f.start) ELSE ParseTime(f.start)
        endP == ParseTime(f.end)
        duration == ParseDuration(f.duration)
        endTime == IF f.end # EmptyFlag THEN endP.t
                   ELSE IF f.allDay THEN TimeIn(AddDate(startP.t.wall, 1), startP.t.zone)
                   ELSE TimeIn(Add(startP.t.wall, duration.minutes), startP.t.zone)
    IN  [err |-> CreateParseError(f.allDay, ~startP.err, f.end # EmptyFlag, ~endP.err,
                                  ~duration.err),
         opts |-> CreateEventOptions(startP.t, endTime, f.allDay)]

\* octl calendar create
RunCalendarCreate ==
    /\ Idle
    /\ \E env \in Strings, j \in BOOLEAN, p \in BOOLEAN,
           tok \in TokenOutcomes, res \in ItemResults, f \in CreateFlags :
        \E c \in {runCalendarCreate(f)} :
            /\ GlobalInputs("calendar create", EmptyString, env, j, p)
            /\ mailListFlags' = DefaultMailListFlags
            /\ input' = f
            /\ runGraphCommand(CreateEvent(c.opts), "item", "", "Event created",
                               c.err, env, j, p, tok, res)

\* the second argument of calendar respond, as typed
Responses == {"accept", "decline", "tentative", "ACCEPT", "Decline", "maybe", ""}

\* strings.ToLower on those
ToLower(r) ==
    CASE r = "ACCEPT" -> "accept"
      [] r = "Decline" -> "decline"
      [] OTHER -> r

\* RespondToEvent as it would be if an unknown response were sent as tentative
RespondOp_unknownIsTentative(response) ==
    CASE response = "accept" -> "POST event/accept"
      [] response = "decline" -> "POST event/decline"
      [] OTHER -> "POST event/tentativelyAccept"

\* the request calendar.RespondToEvent issues for a response, none for an
\* invalid one
RespondOp(response) ==
    CASE response = "accept" -> "POST event/accept"
      [] response = "decline" -> "POST event/decline"
      [] response = "tentative" -> "POST event/tentativelyAccept"
      [] OTHER -> "none"

\* octl calendar respond <event-id> <response>
RunCalendarRespond ==
    /\ Idle
    /\ \E env \in Strings, j \in BOOLEAN, p \in BOOLEAN,
           tok \in TokenOutcomes, res \in ItemResults, typed \in Responses :
            LET response == ToLower(typed)
            IN  /\ GlobalInputs("calendar respond", EmptyString, env, j, p)
                /\ mailListFlags' = DefaultMailListFlags
                /\ input' = [response |-> typed]
                /\ runGraphCommand(RespondOp(response), "done", "", "Response sent",
                                   IF RespondOp(response) = "none"
                                   THEN "invalid response" ELSE "nil",
                                   env, j, p, tok, res)

\* octl calendar delete <event-id>
RunCalendarDelete ==
    /\ Idle
    /\ \E env \in Strings, j \in BOOLEAN, p \in BOOLEAN,
           tok \in TokenOutcomes, res \in ItemResults :
            /\ Inputs("calendar delete", EmptyString, env, j, p)
            /\ runGraphCommand("DELETE event", "done", "", "Event deleted",
                               "nil", env, j, p, tok, res)

\* ------------------------------------------------- the states of a start
\* Before the first run the directory may be missing, freshly created, or
\* left in any condition by earlier use or by hand.
TypeOK ==
    /\ dir \in BOOLEAN
    /\ configFile \in FileStates
    /\ authFile \in FileStates
    /\ ~dir => configFile = Absent /\ authFile = Absent

Init ==
    /\ TypeOK
    /\ cmd = "none"
    /\ clientIDFlag = EmptyString
    /\ envClientID = EmptyString
    /\ jsonOutput = FALSE
    /\ plainOutput = FALSE
    /\ mgr = NewManager(EmptyString)
    /\ out = FreshOut
    /\ arg = EmptyString
    /\ ret = NoResult
    /\ hist = FreshHist
    /\ mailListFlags = DefaultMailListFlags
    /\ input = NoInput
    /\ table = NewTable(<<>>)
    /\ added = <<>>

\* main: cmd.Execute() has returned and the process exits; nothing it held
\* in memory survives
Exit ==
    /\ cmd # "none"
    /\ cmd' = "none"
    /\ clientIDFlag' = EmptyString
    /\ envClientID' = EmptyString
    /\ jsonOutput' = FALSE
    /\ plainOutput' = FALSE
    /\ mgr' = NewManager(EmptyString)
    /\ out' = FreshOut
    /\ mailListFlags' = DefaultMailListFlags
    /\ input' = NoInput
    /\ UNCHANGED <<fsVars, hist, apiVars>>

Next ==
    \/ RunLogin
    \/ RunLogout
    \/ RunStatus
    \/ RunMailList
    \/ RunMailRead
    \/ RunMailSearch
    \/ RunMailFolders
    \/ RunMailSend
    \/ RunMailDraft
    \/ RunMailMove
    \/ RunCalendarList
    \/ RunCalendarToday
    \/ RunCalendarWeek
    \/ RunCalendarShow
    \/ RunCalendarCreate
    \/ RunCalendarRespond
    \/ RunCalendarDelete
    \/ Exit

Spec == Init /\ [][Next]_vars

\* ------------------------------------- the config package, called directly
\* config.Load()
CallLoad ==
    \E l \in {Load(configFile)} :
        /\ cmd' = "config.Load"
        /\ arg' = EmptyString
        /\ ret' = [err |-> l.err, ClientID |-> l.cfg.ClientID, loadErr |-> "nil"]
        /\ UNCHANGED <<fsVars, clientIDFlag, envClientID, jsonOutput, plainOutput,
                       mgr, out, hist, mailListFlags, input, table, added>>

\* config.Save(&Config{ClientID: c})
CallSave ==
    \E c \in Strings :
        \E s \in {Save(dir, configFile, Config(c))} :
            /\ cmd' = "config.Save"
            /\ arg' = c
            /\ ret' = [NoResult EXCEPT !.err = s.err]
            /\ dir' = s.dir
            /\ configFile' = s.file
            /\ UNCHANGED <<authFile, clientIDFlag, envClientID, jsonOutput, plainOutput,
                           mgr, out, hist, mailListFlags, input, table, added>>

\* config.SetClientID(c)
CallSetClientID ==
    \E c \in Strings :
        \E s \in {SetClientID(dir, configFile, c)} :
            /\ cmd' = "config.SetClientID"
            /\ arg' = c
            /\ ret' = [NoResult EXCEPT !.err = s.err,
                                       !.loadErr = Load(configFile).err,
                                       !.ClientID = Load(configFile).cfg.ClientID]
            /\ dir' = s.dir
            /\ configFile' = s.file
            /\ UNCHANGED <<authFile, clientIDFlag, envClientID, jsonOutput, plainOutput,
                           mgr, out, hist, mailListFlags, input, table, added>>

\* config.GetClientID() with OCTL_CLIENT_ID = env
CallGetClientID ==
    \E env \in Strings :
        /\ cmd' = "config.GetClientID"
        /\ arg' = EmptyString
        /\ envClientID' = env
        /\ ret' = [NoResult EXCEPT !.ClientID = GetClientID(env, configFile)]
        /\ UNCHANGED <<fsVars, clientIDFlag, jsonOutput, plainOutput, mgr, out, hist,
                       mailListFlags, input, table, added>>

ConfigNext ==
    \/ CallLoad
    \/ CallSave
    \/ CallSetClientID
    \/ CallGetClientID

ConfigSpec == Init /\ [][ConfigNext]_vars

\* ------------------------------------- the output package, called directly
\* a test process: nothing on disk, nothing run
LibInit ==
    /\ Init
    /\ ~dir

\* what a direct call leaves alone besides the table
cmdVars ==
    <<fsVars, clientIDFlag, envClientID, jsonOutput, plainOutput, mgr, out, hist,
      mailListFlags, input>>

\* the caller is done with its latest call: argument and result are dropped,
\* the table it holds stays
Return ==
    /\ cmd # "none"
    /\ cmd' = "none"
    /\ arg' = EmptyString
    /\ ret' = NoResult
    /\ UNCHANGED <<cmdVars, table, added>>

\* output.New(f)
CallNew ==
    /\ Idle
    /\ \E f \in FormatStrings :
        /\ cmd' = "output.New"
        /\ arg' = f
        /\ ret' = New(f)
        /\ UNCHANGED <<cmdVars, table, added>>

\* output.PrintTable(f, table)
CallPrintTable ==
    /\ Idle
    /\ \E f \in FormatStrings :
        /\ cmd' = "output.PrintTable"
        /\ arg' = f
        /\ ret' = PrintTable(f, table)
        /\ UNCHANGED <<cmdVars, table, added>>

\* table := output.NewTable(h...)
CallNewTable ==
    /\ Idle
    /\ \E h \in HeaderLists :
        /\ cmd' = "output.NewTable"
        /\ arg' = h
        /\ ret' = NoResult
        /\ table' = NewTable(h)
        /\ added' = <<>>
        /\ UNCHANGED cmdVars

\* table.AddRow(c...)
CallAddRow ==
    /\ Idle
    /\ Len(table.rows) < MaxRows
    /\ \E c \in CellLists :
        /\ cmd' = "Table.AddRow"
        /\ arg' = c
        /\ ret' = NoResult
        /\ table' = AddRow(table, c)
        /\ added' = Append(added, c)
        /\ UNCHANGED cmdVars

\* table.ToPlain()
CallToPlain ==
    /\ Idle
    /\ cmd' = "Table.ToPlain"
    /\ arg' = EmptyString
    /\ ret' = ToPlain(table)
    /\ UNCHANGED <<cmdVars, table, added>>

\* table.ToJSON()
CallToJSON ==
    /\ Idle
    /\ cmd' = "Table.ToJSON"
    /\ arg' = EmptyString
    /\ ret' = ToJSON(table)
    /\ UNCHANGED <<cmdVars, table, added>>

OutputNext ==
    \/ CallNew
    \/ CallPrintTable
    \/ CallNewTable
    \/ CallAddRow
    \/ CallToPlain
    \/ CallToJSON
    \/ Return

OutputSpec == LibInit /\ [][OutputNext]_vars

\* --------------------------------------- the mail package, called directly
\* time.Time{}
ZeroTime == Time(1, 1, 1, 0, 0)

\* m.FormatFrom(n)
CallFormatFrom ==
    /\ Idle
    /\ \E t \in Texts, n \in MaxLens :
        /\ cmd' = "Message.FormatFrom"
        /\ arg' = [msg |-> Message(t, <<>>, ZeroTime), maxLen |-> n]
        /\ ret' = FormatFrom(Message(t, <<>>, ZeroTime), n)
        /\ UNCHANGED <<cmdVars, table, added>>

\* m.FormatSubject(n)
CallFormatSubject ==
    /\ Idle
    /\ \E t \in Texts, n \in MaxLens :
        /\ cmd' = "Message.FormatSubject"
        /\ arg' = [msg |-> Message(<<>>, t, ZeroTime), maxLen |-> n]
        /\ ret' = FormatSubject(Message(<<>>, t, ZeroTime), n)
        /\ UNCHANGED <<cmdVars, table, added>>

\* m.FormatDate() at the time now
CallFormatDate ==
    /\ Idle
    /\ \E r \in Times, now \in Times :
        /\ cmd' = "Message.FormatDate"
        /\ arg' = [msg |-> Message(<<>>, <<>>, r), now |-> now]
        /\ ret' = FormatDate(Message(<<>>, <<>>, r), now)
        /\ UNCHANGED <<cmdVars, table, added>>

\* mail.StripHTML(b)
CallStripHTML ==
    /\ Idle
    /\ \E b \in HTMLBodies :
        /\ cmd' = "mail.StripHTML"
        /\ arg' = b
        /\ ret' = StripHTML(b)
        /\ UNCHANGED <<cmdVars, table, added>>

MailNext ==
    \/ CallFormatFrom
    \/ CallFormatSubject
    \/ CallFormatDate
    \/ CallStripHTML
    \/ Return

MailSpec == LibInit /\ [][MailNext]_vars

\* ----------------------------------- the calendar package, called directly
\* parseDateTime(dt, tz)
CallParseDateTime ==
    /\ Idle
    /\ \E dt \in DateTimeStrings, tz \in ZoneNames :
        /\ cmd' = "calendar.parseDateTime"
        /\ arg' = [dt |-> dt, tz |-> tz]
        /\ ret' = parseDateTime(dt, tz)
        /\ UNCHANGED <<cmdVars, table, added>>

CalendarNext ==
    \/ CallParseDateTime
    \/ Return

CalendarSpec == LibInit /\ [][CalendarNext]_vars

\* ================================================================ claims
GraphCommands ==
    {"mail list", "mail read", "mail search", "mail folders", "mail send",
     "mail draft", "mail move", "calendar list", "calendar today", "calendar week",
     "calendar show", "calendar create", "calendar respond", "calendar delete"}

\* C1: once Login has succeeded and until a Logout, the record it obtained
\* is what auth_record.json holds, LoadCredential on a fresh Manager of any
\* client ID succeeds and yields a credential that never prompts, and every
\* run that called LoadCredential got no error, holds a credential and
\* showed no device-code prompt.
C1_SilentReuseAfterLogin ==
    hist.login.present =>
        /\ authFile = MarshalRecord(hist.login)
        /\ \A id \in Strings \cup {Dummy} :
              LET l == LoadCredential(NewManager(id), authFile)
              IN  /\ l.err = "nil"
                  /\ l.mgr.credential.present
                  /\ l.mgr.credential.DisableAutomaticAuthentication
        /\ out.loadCalled =>
              /\ out.loadErr = "nil"
              /\ mgr.credential.present
              /\ ~out.prompted

\* a later run read mail with the login of an earlier run
C1_Witness ==
    /\ hist.login.present
    /\ cmd = "mail list"
    /\ out.loadCalled
    /\ out.err = "nil"
    /\ Len(out.calls) > 0

\* C2: from a successful Logout to the next successful Login the record
\* file is absent and LoadCredential fails with 'not logged in'; Logout
\* returns no error both when it removed a record and when there was none
\* to remove, whatever client ID resolves, also none: it fails only when the
\* entry exists and cannot be removed.
C2_LoggedOutUntilLogin ==
    /\ hist.loggedOut =>
          /\ authFile = Absent
          /\ \A id \in Strings \cup {Dummy} :
                LoadCredential(NewManager(id), authFile).err = "not logged in"
          /\ out.loadCalled => out.loadErr = "not logged in"
    /\ cmd = "auth logout" =>
          /\ out.removeErr \in {"nil", "ENOENT"} => out.err = "nil" /\ hist.loggedOut
          /\ out.err # "nil" => out.removeErr = "ENOTEMPTY"

\* a logout that found no record, with no client ID configured, succeeded
C2_Witness ==
    /\ cmd = "auth logout"
    /\ out.removeErr = "ENOENT"
    /\ out.clientID = EmptyString
    /\ out.err = "nil"
    /\ hist.loggedOut

\* C3: a mail or calendar command resolves the client ID first and loads
\* the auth record next; with no client ID it returns 'not configured', with
\* a record that does not load it returns 'not logged in', and in both cases
\* it has issued no remote call and printed nothing.
C3_NoClientNoRequest ==
    cmd \in GraphCommands =>
        /\ out.resolved
        /\ out.clientID = GetClientID(envClientID, configFile)
        /\ out.clientID = EmptyString =>
              /\ out.err = "not configured"
              /\ ~out.loadCalled
              /\ out.calls = <<>>
              /\ out.stdout = <<>>
        /\ out.clientID # EmptyString =>
              /\ out.loadCalled
              /\ out.loadErr = loadAuthRecord(authFile).err
        /\ (out.loadCalled /\ out.loadErr # "nil") =>
              /\ out.err = "not logged in"
              /\ out.calls = <<>>
              /\ out.stdout = <<>>

\* calendar create with a client ID and a record file that does not parse
C3_Witness ==
    /\ cmd = "calendar create"
    /\ out.clientID # EmptyString
    /\ out.loadErr = "failed to parse auth record"
    /\ out.err = "not logged in"

\* C4: every remote call of a run was issued under a context with a
\* deadline: 5 minutes in auth login, 30 seconds in every other command.
C4_EveryCallHasDeadline ==
    \A i \in 1..Len(out.calls) :
        /\ out.calls[i].ctx.hasDeadline
        /\ out.calls[i].ctx.timeout =
              IF cmd = "auth login" THEN LoginTimeoutSec ELSE MailTimeoutSec

\* C5: GetClientID returns OCTL_CLIENT_ID when that is not empty, whatever
\* the config file holds; otherwise the client ID the config file holds,
\* which is empty when the file is missing, unreadable or unparseable.
C5_EnvBeforeConfig ==
    cmd = "config.GetClientID" =>
        ret.ClientID =
            IF envClientID # EmptyString THEN envClientID
            ELSE IF configFile.kind = "json" /\ configFile.hasKey
                 THEN ToValidUTF8(configFile.value)
                 ELSE EmptyString

\* the environment won against a config file that holds another client ID
C5_Witness ==
    /\ cmd = "config.GetClientID"
    /\ envClientID # EmptyString
    /\ configFile.kind = "json"
    /\ configFile.hasKey
    /\ configFile.value # envClientID
    /\ ret.ClientID = envClientID

\* C6 as claimed: after a successful Save(c), Load returns c, for every c.
C6_SaveLoadRoundTrip ==
    (cmd = "config.Save" /\ ret.err = "nil") =>
        /\ Load(configFile).err = "nil"
        /\ Load(configFile).cfg = Config(arg)

\* C6: after a successful Save(c), whatever the file held before, Load
\* succeeds and returns c with every byte that is not valid UTF-8 replaced
\* by U+FFFD; so it returns c itself when c.ClientID is valid UTF-8.
C6_RoundTripOfValidUTF8 ==
    (cmd = "config.Save" /\ ret.err = "nil") =>
        /\ Load(configFile).err = "nil"
        /\ Load(configFile).cfg.ClientID = ToValidUTF8(arg)
        /\ ValidUTF8(arg) => Load(configFile).cfg = Config(arg)

\* a non-empty client ID was saved and is read back
C6_Witness ==
    /\ cmd = "config.Save"
    /\ ret.err = "nil"
    /\ arg # EmptyString
    /\ ValidUTF8(arg)
    /\ Load(configFile).cfg = Config(arg)

\* C7: Load on a missing config file returns no error and an empty client
\* ID, and leaves the directory and the file as they were: not created.
C7_LoadMissingIsEmpty ==
    [][(CallLoad /\ configFile = Absent) =>
          /\ ret'.err = "nil"
          /\ ret'.ClientID = EmptyString
          /\ configFile' = Absent
          /\ dir' = dir]_vars

\* Load has run with neither the directory nor the file there
C7_Witness ==
    /\ cmd = "config.Load"
    /\ ~dir
    /\ configFile = Absent
    /\ ret.err = "nil"
    /\ ret.ClientID = EmptyString

C9_FlagLoginIsReused ==
    (hist.flagLogin.present /\ cmd # "none" /\ clientIDFlag = EmptyString
        /\ out.resolved) =>
        /\ out.clientID = hist.flagLogin.X
        /\ (hist.byFlag /\ out.loadCalled) =>
              /\ out.loadErr = "nil"
              /\ mgr.record.ClientID = hist.flagLogin.X

\* C9: after a successful auth login --client-id X whose write of the
\* config file succeeded, every later run without the flag and with
\* OCTL_CLIENT_ID empty works with client ID X; while that login is the
\* latest and no logout has happened, it loads the record of that login.
C9_SavedFlagLoginIsReused ==
    (hist.flagLogin.present /\ hist.flagLogin.saved /\ cmd # "none"
        /\ clientIDFlag = EmptyString /\ out.resolved
        /\ envClientID = EmptyString) =>
        /\ out.clientID = hist.flagLogin.X
        /\ (hist.byFlag /\ out.loadCalled) =>
              /\ out.loadErr = "nil"
              /\ mgr.clientID = hist.flagLogin.X
              /\ mgr.record.ClientID = hist.flagLogin.X

\* a later mail list, no flag and no environment variable, used the login
C9_Witness ==
    /\ hist.flagLogin.present
    /\ hist.flagLogin.saved
    /\ hist.byFlag
    /\ cmd = "mail list"
    /\ envClientID = EmptyString
    /\ out.clientID = hist.flagLogin.X
    /\ out.err = "nil"

\* C10: whenever a command calls GetOutputFormat it gets 'json' if --json
\* is set (with or without --plain), 'plain' if only --plain is set, and
\* 'table' if neither is: one of the three in every case.
C10_OutputFormat ==
    out.format # "none" =>
        /\ out.format \in {"json", "plain", "table"}
        /\ jsonOutput => out.format = "json"
        /\ (~jsonOutput /\ plainOutput) => out.format = "plain"
        /\ (~jsonOutput /\ ~plainOutput) => out.format = "table"

\* both flags were given and the output was JSON
C10_Witness ==
    /\ jsonOutput
    /\ plainOutput
    /\ out.format = "json"
    /\ out.stdout = <<"json">>

\* the format a format string selects
Selected(f) == IF f \in {"json", "plain", "table"} THEN f ELSE "table"

\* C11: New gives the Formatter the format json, plain or table when the
\* string is exactly that, and table for every other string, the empty one
\* included; PrintTable writes in the layout the same rule selects.
C11_FormatSelection ==
    /\ cmd = "output.New" => ret.format = Selected(arg)
    /\ cmd = "output.PrintTable" => ret.layout = Selected(arg)

\* New was given a format in the wrong case and chose table
C11_Witness ==
    /\ cmd = "output.New"
    /\ arg = "JSON"
    /\ ret.format = "table"

\* the smaller of two numbers
Min(a, b) == IF a < b THEN a ELSE b

\* C13 as claimed: one map per row in row order, cell j under header j for
\* every j below both lengths, nothing from cells beyond the headers.
C13_CellUnderItsHeader ==
    cmd = "Table.ToJSON" =>
        /\ Len(ret) = Len(table.rows)
        /\ \A i \in 1..Len(table.rows) :
              LET row == table.rows[i]
                  n == Min(Len(row), Len(table.headers))
              IN  /\ DOMAIN ret[i] = {table.headers[j] : j \in 1..n}
                  /\ \A j \in 1..n : ret[i][table.headers[j]] = row[j]

\* C13: one map per row in row order; the keys of row i's map are the
\* headers at positions below both lengths, and under each key is the cell of
\* the last such position that has that header name, so with no header name
\* repeated cell j is under header j; cells beyond the headers are dropped.
C13_LastCellUnderHeaderName ==
    cmd = "Table.ToJSON" =>
        /\ Len(ret) = Len(table.rows)
        /\ \A i \in 1..Len(table.rows) :
              LET row == table.rows[i]
                  n == Min(Len(row), Len(table.headers))
              IN  /\ DOMAIN ret[i] = {table.headers[j] : j \in 1..n}
                  /\ \A j \in 1..n :
                        (\A k \in (j + 1)..n : table.headers[k] # table.headers[j])
                            => ret[i][table.headers[j]] = row[j]

\* a row longer than the two distinct headers went through ToJSON
C13_Witness ==
    /\ cmd = "Table.ToJSON"
    /\ table.headers = <<"A", "B">>
    /\ Len(table.rows) = 2
    /\ Len(table.rows[2]) = 3
    /\ ret[2] = [k \in {"A", "B"} |-> IF k = "A" THEN table.rows[2][1] ELSE table.rows[2][2]]

\* C14: at every moment ToPlain is the sequence of rows given to AddRow
\* since NewTable, in call order, and holds no header row.
C14_ToPlainIsAddedRows ==
    /\ ToPlain(table) = added
    /\ cmd = "Table.ToPlain" => ret = added

\* ToPlain after two different rows were added to a table with headers
C14_Witness ==
    /\ cmd = "Table.ToPlain"
    /\ Len(table.headers) = 2
    /\ Len(added) = 2
    /\ added[1] # added[2]
    /\ ret = added

\* the commands that print a list of messages or events
ListCommands ==
    {"mail list", "mail search", "calendar list", "calendar today", "calendar week"}

\* C12: with --json, every successful mail list, mail search and calendar
\* list, today or week run has written JSON and nothing else, whatever the
\* service returned, an empty result included.
C12_JSONForEveryResult ==
    (cmd \in ListCommands /\ jsonOutput /\ out.err = "nil") =>
        out.stdout = <<"json">>

\* the text FormatFrom or FormatSubject is to display: the sender, the
\* subject, or the placeholder of an empty subject
Displayed ==
    IF cmd = "Message.FormatFrom" THEN arg.msg.From
    ELSE IF arg.msg.Subject = <<>> THEN NoSubject
    ELSE arg.msg.Subject

\* what the claim says the two functions return for a text and a maxLen
Truncated(text, maxLen) ==
    IF Len(text) <= maxLen THEN text
    ELSE SubSeq(text, 1, maxLen - 3) \o Ellipsis

\* C15 as claimed: for every message and every maxLen, FormatFrom and
\* FormatSubject return a string of at most maxLen bytes: the text when it
\* fits, else its first maxLen-3 bytes followed by '...'.
C15_AtMostMaxLen ==
    cmd \in {"Message.FormatFrom", "Message.FormatSubject"} =>
        /\ ~ret.panic
        /\ Len(ret.value) <= arg.maxLen
        /\ ret.value = Truncated(Displayed, arg.maxLen)

\* C15: for every maxLen of 3 or more the two functions return a string of
\* at most maxLen bytes, the text when it fits and else its first maxLen-3
\* bytes followed by '...'; for a smaller maxLen they return the text when
\* it fits and panic when it does not.
C15_AtMostMaxLenFromThree ==
    cmd \in {"Message.FormatFrom", "Message.FormatSubject"} =>
        /\ arg.maxLen >= 3 =>
              /\ ~ret.panic
              /\ Len(ret.value) <= arg.maxLen
              /\ ret.value = Truncated(Displayed, arg.maxLen)
        /\ arg.maxLen < 3 =>
              /\ ret.panic <=> Len(Displayed) > arg.maxLen
              /\ ~ret.panic => ret.value = Displayed

\* a sender of five bytes was cut to fit four
C15_Witness ==
    /\ cmd = "Message.FormatFrom"
    /\ Len(arg.msg.From) = 5
    /\ arg.maxLen = 4
    /\ ret = Returned(<<arg.msg.From[1]>> \o Ellipsis)

\* C16 as claimed: for an empty subject FormatSubject returns the
\* placeholder '(no subject)'.
C16_PlaceholderForEmpty ==
    (cmd = "Message.FormatSubject" /\ arg.msg.Subject = <<>>) =>
        ret = Returned(NoSubject)

\* C16: for an empty subject FormatSubject returns the placeholder
\* '(no subject)' when maxLen is at least its 12 bytes; for a maxLen from 3
\* to 11 it returns the placeholder cut like any subject; and whatever it
\* returns for a subject that is not empty is made of that subject.
C16_PlaceholderWhenItFits ==
    cmd = "Message.FormatSubject" =>
        /\ (arg.msg.Subject = <<>> /\ arg.maxLen >= Len(NoSubject)) =>
              ret = Returned(NoSubject)
        /\ (arg.msg.Subject = <<>> /\ arg.maxLen >= 3 /\ arg.maxLen < Len(NoSubject)) =>
              ret = Returned(SubSeq(NoSubject, 1, arg.maxLen - 3) \o Ellipsis)
        /\ (arg.msg.Subject # <<>> /\ ~ret.panic) =>
              \/ ret.value = arg.msg.Subject
              \/ ret.value = SubSeq(arg.msg.Subject, 1, arg.maxLen - 3) \o Ellipsis

\* an empty subject was formatted with room for the placeholder
C16_Witness ==
    /\ cmd = "Message.FormatSubject"
    /\ arg.msg.Subject = <<>>
    /\ arg.maxLen = 12
    /\ ret = Returned(NoSubject)

\* C17: FormatDate returns the time of day when year, month and day of the
\* received date equal today's, month and day when the year equals this year
\* but the date is not today's, and the full date for any other year.
C17_ThreeLayouts ==
    cmd = "Message.FormatDate" =>
        LET r == arg.msg.ReceivedAt
            now == arg.now
            today == r.Year = now.Year /\ r.Month = now.Month /\ r.Day = now.Day
        IN  /\ today => ret = [layout |-> "15:04", fields |-> <<r.Hour, r.Minute>>]
            /\ (r.Year = now.Year /\ ~today) =>
                  ret = [layout |-> "Jan 02", fields |-> <<r.Month, r.Day>>]
            /\ r.Year # now.Year =>
                  ret = [layout |-> "2006-01-02", fields |-> <<r.Year, r.Month, r.Day>>]

\* a message of the same day and month of last year got the full date
C17_Witness ==
    /\ cmd = "Message.FormatDate"
    /\ arg.msg.ReceivedAt.Year # arg.now.Year
    /\ arg.msg.ReceivedAt.Month = arg.now.Month
    /\ arg.msg.ReceivedAt.Day = arg.now.Day
    /\ ret.layout = "2006-01-02"

\* an HTML tag: a '<' and the first '>' after it
HasTag(s) == \E i \in 1..Len(s) : \E j \in (i + 1)..Len(s) : s[i] = "<" /\ s[j] = ">"

\* s from byte i on without its tags: each '<' that has a matching '>' is
\* left out together with that '>' and everything between them
RECURSIVE TextOutsideTags(_, _)
TextOutsideTags(s, i) ==
    IF i > Len(s) THEN <<>>
    ELSE IF s[i] = "<" /\ \E j \in (i + 1)..Len(s) : s[j] = ">"
    THEN TextOutsideTags(s, 1 + CHOOSE j \in (i + 1)..Len(s) :
                                  /\ s[j] = ">"
                                  /\ \A k \in (i + 1)..(j - 1) : s[k] # ">")
    ELSE <<s[i]>> \o TextOutsideTags(s, i + 1)

HasEntity(s) == \E k \in 1..Len(Entities) : Contains(s, Entities[k][1])

\* no blank line and no line that starts or ends with whitespace
CleanLines(s) ==
    \A k \in 1..Len(SplitLines(s, 1, <<>>)) :
        LET line == SplitLines(s, 1, <<>>)[k]
        IN  line # <<>> /\ TrimSpace(line) = line

\* s without its whitespace
Visible(s) == SelectSeq(s, LAMBDA c : c \notin Whitespace)

\* C18: for every input StripHTML removes every tag and keeps the text
\* outside tags; an input without tags, entities, blank lines and leading or
\* trailing whitespace comes back unchanged; the empty input gives the empty
\* output.
C18_TagsRemovedTextKept ==
    cmd = "mail.StripHTML" =>
        /\ arg = <<>> => ret = <<>>
        /\ (~HasTag(arg) /\ ~HasEntity(arg) /\ CleanLines(arg)) => ret = arg
        /\ ~HasEntity(arg) => Visible(ret) = Visible(TextOutsideTags(arg, 1))

\* the location parseDateTime reads zone-less input in
LocationOf(tz) == IF tz \in KnownZones THEN tz ELSE "UTC"

\* C19: parseDateTime returns the time read from the input by the first of
\* its four layouts that accepts it: an input without zone (seven fraction
\* digits, another fraction or none) and a Z-suffixed input are read in the
\* location of tz, an input with an offset keeps its offset; every input none
\* of the layouts accepts gives the zero time; an unknown tz counts as UTC.
C19_FirstLayoutOrZero ==
    cmd = "calendar.parseDateTime" =>
        LET dt == arg.dt
            accepted == dt.valid /\ dt.suffix \in {"", "Z", "+02:00"}
        IN  /\ ret.t.zero <=> ~accepted
            /\ ~accepted => ret.t = ZeroTimeValue /\ ret.layout = 0
            /\ accepted =>
                  /\ ret.t.wall = dt.wall
                  /\ ret.layout = CASE dt.suffix = "" /\ dt.frac = 7 -> 1
                                    [] dt.suffix = "" /\ dt.frac # 7 -> 2
                                    [] dt.suffix = "Z" -> 3
                                    [] OTHER -> 4
                  /\ ret.t.zone = IF dt.suffix = "+02:00" THEN "+02:00"
                                  ELSE LocationOf(arg.tz)

\* a Graph dateTime with seven fraction digits and a Windows zone name was
\* read as UTC
C19_Witness ==
    /\ cmd = "calendar.parseDateTime"
    /\ arg.dt.valid
    /\ arg.dt.frac = 7
    /\ arg.dt.suffix = ""
    /\ arg.tz = "Pacific Standard Time"
    /\ ret = [layout |-> 1, t |-> TimeIn(arg.dt.wall, "UTC")]

\* C20: the request of every successful mail list run asks for unread
\* messages only when --unread is given and for n messages when --count n
\* is, with and without --folder.
C20_UnreadAndCountApply ==
    (cmd = "mail list" /\ out.err = "nil") =>
        LET request == out.calls[Len(out.calls)].op
        IN  /\ mailListFlags.mailListUnread =>
                  /\ request.config.present
                  /\ request.config.Filter = "isRead eq false"
            /\ mailListFlags.mailListCount > 0 =>
                  /\ request.config.present
                  /\ request.config.Top = mailListFlags.mailListCount

\* the kind of request a response typed on the command line stands for
KindOf(typed) ==
    CASE typed \in {"accept", "ACCEPT"} -> "POST event/accept"
      [] typed \in {"decline", "Decline"} -> "POST event/decline"
      [] typed = "tentative" -> "POST event/tentativelyAccept"
      [] OTHER -> "none"

\* the requests of a run that answer an invitation
RespondCalls ==
    SelectSeq(out.calls, LAMBDA c :
        c.op \in {"POST event/accept", "POST event/decline", "POST event/tentativelyAccept"})

\* a run that got its Graph client
GotClient == out.err \notin {"not configured", "not logged in"}

Request == out.calls[Len(out.calls)].op

\* the time a formatted parameter of a request names
Named(f) == Time(f.fields[1], f.fields[2], f.fields[3], f.fields[4], f.fields[5])

\* C22: the request of every successful calendar week run asks for the
\* window [start, start + 7 days) where start is 00:00 of the Monday on or
\* before the current date (for a Sunday, the Monday six days before), and
\* the current time lies in the window.
C22_WeekWindow ==
    (cmd = "calendar week" /\ out.err = "nil") =>
        LET start == Named(Request.StartDateTime)
            end == Named(Request.EndDateTime)
            today == AbsDays(input.now.Year, input.now.Month, input.now.Day)
            monday == AbsDays(start.Year, start.Month, start.Day)
        IN  /\ start.Hour = 0 /\ start.Minute = 0
            /\ Weekday(start) = 1
            /\ monday <= today /\ today <= monday + 6
            /\ Weekday(input.now) = 0 => monday = today - 6
            /\ AbsMinutes(end) = AbsMinutes(start) + 7 * 1440
            /\ AbsMinutes(start) <= AbsMinutes(input.now)
            /\ AbsMinutes(input.now) < AbsMinutes(end)

\* on Sunday 3 March 2024, 23:59, the week asked for runs from Monday 26
\* February to Monday 4 March
C22_Witness ==
    /\ cmd = "calendar week"
    /\ input.now = Time(2024, 3, 3, 23, 59)
    /\ out.err = "nil"
    /\ Named(Request.StartDateTime) = Time(2024, 2, 26, 0, 0)
    /\ Named(Request.EndDateTime) = Time(2024, 3, 4, 0, 0)

\* what the flags of a calendar create run say, read off the strings
StartParses ==
    /\ input.start.valid
    /\ IF input.allDay THEN input.start.suffix = "date only"
       ELSE input.start.suffix \in {"", "Z", "+02:00"}
EndGiven == input.end # EmptyFlag
EndParses == input.end.valid /\ input.end.suffix \in {"", "Z", "+02:00"}
DurationParses == input.duration = "2h30m"
DurationMinutes == IF input.duration = "2h30m" THEN 150 ELSE 60

ParseErrors ==
    {"invalid start date", "invalid start time", "invalid end time", "invalid duration"}

\* the end of the event a successful calendar create run asked for is the
\* time --end names if given, else the start plus one day for --all-day,
\* else the start plus --duration
EndAsDetermined ==
    LET start == Named(Request.start.dateTime)
        end == Named(Request.end.dateTime)
    IN  /\ start = input.start.wall
        /\ IF EndGiven THEN end = input.end.wall
           ELSE IF input.allDay THEN AbsMinutes(end) = AbsMinutes(start) + 1440
           ELSE AbsMinutes(end) = AbsMinutes(start) + DurationMinutes

\* C23 as stated: the end is determined as above, and a run whose --start,
\* --end or --duration does not parse returns a parse error and issues no
\* remote call.
C23_EndAndParseErrors ==
    (cmd = "calendar create" /\ GotClient) =>
        /\ out.err = "nil" => EndAsDetermined
        /\ (~StartParses \/ (EndGiven /\ ~EndParses) \/ ~DurationParses) =>
                out.err \in ParseErrors /\ out.calls = <<>>

\* C23, amended: the end is determined as above, and a run whose --start
\* does not parse, whose --end is given and does not parse, or whose
\* --duration is needed (neither --end nor --all-day) and does not parse
\* returns a parse error and issues no remote call.
C23_EndAndParseErrorsOfUsedFlags ==
    (cmd = "calendar create" /\ GotClient) =>
        /\ out.err = "nil" => EndAsDetermined
        /\ (\/ ~StartParses
            \/ EndGiven /\ ~EndParses
            \/ ~EndGiven /\ ~input.allDay /\ ~DurationParses) =>
                out.err \in ParseErrors /\ out.calls = <<>>

\* --start 2024-02-28T23:30:00 --duration 2h30m has asked for an event that
\* ends on 29 February at 02:00
C23_Witness ==
    /\ cmd = "calendar create"
    /\ out.err = "nil"
    /\ ~input.allDay
    /\ ~EndGiven
    /\ input.start = DateTimeString(TRUE, Time(2024, 2, 28, 23, 30), 0, "")
    /\ input.duration = "2h30m"
    /\ Named(Request.end.dateTime) = Time(2024, 2, 29, 2, 0)

\* C24: a run of auth status leaves config.json, auth_record.json and their
\* directory as they were, returns no error and shows no prompt; its first
\* line is "Status: Not configured" when neither OCTL_CLIENT_ID nor the
\* config file gives a client ID, "Status: Logged in" when one does, the
\* auth record file holds a record and the identity library has a token or
\* refreshes one, and "Status: Not logged in" in every other case.
C24_StatusReadsOnly ==
    [][(cmd = "none" /\ cmd' = "auth status") =>
        LET configured == GetClientID(envClientID', configFile) # EmptyString
            recordLoads == authFile.kind = "json" /\ authFile.hasKey
            tokenObtained == input'.tok \in {"cache_hit", "refresh_ok"}
        IN  /\ <<dir, configFile, authFile>>' = <<dir, configFile, authFile>>
            /\ out'.err = "nil"
            /\ ~out'.prompted
            /\ out'.stdout[1] =
                  IF ~configured THEN "Status: Not configured"
                  ELSE IF recordLoads /\ tokenObtained THEN "Status: Logged in"
                  ELSE "Status: Not logged in"]_vars

\* auth status has reported a login after a token refresh
C24_Witness ==
    /\ cmd = "auth status"
    /\ input.tok = "refresh_ok"
    /\ out.err = "nil"
    /\ out.stdout[1] = "Status: Logged in"
    /\ authFile.kind = "json"

====
